---- MODULE Spec2Model ----
(***************************************************************************)
(* Model of the strategy configurator page (HomePage): the React state     *)
(* form / error / result, the handlers handleChange, the indicator         *)
(* checkbox toggle, handleGenerate and the Reset button, together with the *)
(* pure functions strategySchema.parse, parseNumber and buildStrategy.     *)
(*                                                                         *)
(* Conventions                                                             *)
(*  - A nullable value (T | null) is a sequence of length <= 1: NULL is    *)
(*    <<>> and a present value v is <<v>>.                                 *)
(*  - A JavaScript number is an integer count of hundredths (1000 USD is   *)
(*    100000, 0.1 % is 10).  Every number the form can hold is finite      *)
(*    (parseNumber replaces non-finite parses by the default).             *)
(*  - A JavaScript string built by a template is the tuple of its          *)
(*    fragments; string literals are written without diacritics.           *)
(***************************************************************************)
EXTENDS Integers, Sequences, FiniteSets, TLC

VARIABLES form, error, result, op, steps, memo

vars == <<form, error, result, op, steps, memo>>

\* Longest run of handler invocations explored.
MaxSteps == 5

\* How many values beyond the schema's enum each enum field of a raw parse
\* input ranges over (0 would leave only valid enum values).
MaxForeign == 1

NULL == <<>>
Some(v) == <<v>>

----------------------------------------------------------------------------
\* Static tables

ProfileEnum == {"Scalping", "Day Trade", "Swing"}
SessionEnum == {"Londres", "Nova York", "Toquio"}
AutomationEnum == {"Manual", "Semi-Autonomo", "Total"}

indicatorOptions ==
  << "Media Movel Exponencial (EMA)",
     "Indice de Forca Relativa (RSI)",
     "Bandas de Bollinger",
     "Parabolic SAR",
     "MACD" >>

riskNotes ==
  [p \in ProfileEnum |->
     CASE p = "Scalping" -> "Aproveite spreads baixos e priorize execucao em contas ECN."
       [] p = "Day Trade" -> "Combine confirmacao de tendencia com filtro de volatilidade."
       [] p = "Swing" -> "Busque confluencia em timeframes H4 e D1, validando suporte/resistencia."]

automationTips ==
  [a \in AutomationEnum |->
     CASE a = "Manual" -> "Ideal para traders discricionarios que buscam validar regras."
       [] a = "Semi-Autonomo" -> "Automatize entradas/saidas e mantenha supervisao humana para ajustes."
       [] a = "Total" -> "Garanta backtests robustos em M1/M5 e monitore metricas de drawdown semanal."]

sessionCharacteristics ==
  [s \in SessionEnum |->
     CASE s = "Londres" -> "Alta liquidez em pares EUR/GBP, volatilidade consistente."
       [] s = "Nova York" -> "Maior volume em USD, ideal para continuidades ou reversoes pos-Londres."
       [] s = "Toquio" -> "Mercado mais tecnico, spreads mais altos, pares JPY responsivos."]

defaultState ==
  [ profile |-> "Day Trade",
    capital |-> 100000,
    riskPerTrade |-> 100,
    indicators |-> <<indicatorOptions[1], indicatorOptions[2]>>,
    session |-> "Londres",
    automationLevel |-> "Semi-Autonomo" ]

\* The <option> values of the two <select>s and the labels of the three
\* automation buttons: the only values those widgets can hand to handleChange.
ProfileOptions == {"Scalping", "Day Trade", "Swing"}
SessionOptions == {"Londres", "Nova York", "Toquio"}
AutomationButtons == {"Manual", "Semi-Autonomo", "Total"}

\* table[key] on a Record<string, string>: undefined for a missing key.
Lookup(table, key) == IF key \in DOMAIN table THEN table[key] ELSE "undefined"

\* form ?? defaultState
currentState == IF form = NULL THEN defaultState ELSE form[1]


----------------------------------------------------------------------------
\* Number(value) for the strings typed into the two number inputs: NULL when
\* the result is not finite (NaN, Infinity), else the value in hundredths.
\* Number("") is 0, not NaN.
CapitalTexts == {"", "abc", "99.99", "100", "100.5", "2000"}
RiskTexts == {"1e999", "0.09", "0.1", "2", "5", "5.1"}

Number(value) ==
  CASE value = "" -> Some(0)
    [] value = "0.09" -> Some(9)
    [] value = "0.1" -> Some(10)
    [] value = "2" -> Some(200)
    [] value = "5" -> Some(500)
    [] value = "5.1" -> Some(510)
    [] value = "99.99" -> Some(9999)
    [] value = "100" -> Some(10000)
    [] value = "100.5" -> Some(10050)
    [] value = "2000" -> Some(200000)
    [] OTHER -> NULL

parseNumber(value, fallback) ==
  LET parsed == Number(value)
  IN IF parsed # NULL THEN parsed[1] ELSE fallback

----------------------------------------------------------------------------
\* strategySchema.parse: the schema's keys are visited in declaration order
\* and every failed check appends one issue; the issue list is empty exactly
\* when parse returns.  An issue is represented by its message.

EnumIssue(options, received) ==
  IF received \in options
    THEN <<>>
    ELSE << <<"Invalid enum value. Expected one of", options, "received", received>> >>

MinIssue(minimum, v) ==
  IF v >= minimum
    THEN <<>>
    ELSE << <<"Number must be greater than or equal to", minimum>> >>

MaxIssue(maximum, v) ==
  IF v <= maximum
    THEN <<>>
    ELSE << <<"Number must be less than or equal to", maximum>> >>

ArrayMinIssue(minimum, a) ==
  IF Len(a) >= minimum
    THEN <<>>
    ELSE << <<"Array must contain at least", minimum, "element(s)">> >>

profileIssues(input) == EnumIssue(ProfileEnum, input.profile)
\* Mutation: the minimum written as 99.99 instead of 100.
capitalIssuesLowMinimum(input) == MinIssue(9999, input.capital)
capitalIssues(input) == MinIssue(10000, input.capital)
\* Mutation: the upper bound made exclusive.
riskPerTradeIssuesExclusiveMax(input) ==
  MinIssue(10, input.riskPerTrade) \o MaxIssue(499, input.riskPerTrade)
riskPerTradeIssues(input) ==
  MinIssue(10, input.riskPerTrade) \o MaxIssue(500, input.riskPerTrade)
\* Mutation: the array schema without .min(1).
indicatorsIssuesNoMinimum(input) == ArrayMinIssue(0, input.indicators)
indicatorsIssues(input) == ArrayMinIssue(1, input.indicators)
\* Mutation: the session key accepts any string.
sessionIssuesAnyString(input) == <<>>
sessionIssues(input) == EnumIssue(SessionEnum, input.session)
automationLevelIssues(input) == EnumIssue(AutomationEnum, input.automationLevel)

\* Mutation: the capital key declared before the profile key.
strategySchemaIssuesCapitalFirst(input) ==
  capitalIssues(input) \o profileIssues(input) \o riskPerTradeIssues(input)
    \o indicatorsIssues(input) \o sessionIssues(input)
    \o automationLevelIssues(input)

strategySchemaIssues(input) ==
  profileIssues(input) \o capitalIssues(input) \o riskPerTradeIssues(input)
    \o indicatorsIssues(input) \o sessionIssues(input)
    \o automationLevelIssues(input)

----------------------------------------------------------------------------
\* buildStrategy

\* x.toFixed(digits) for x = num/den >= 0, as a count of 10^-digits units:
\* the nearest one, and at a midpoint the larger unless the double that
\* holds x lies below the midpoint (below = TRUE).
\* den is a multiple of 10^digits wherever toFixed is applied.
Pow10(n) == IF n = 0 THEN 1 ELSE IF n = 1 THEN 10 ELSE 100

\* Mutation: truncation instead of rounding to nearest.
toFixedTruncating(num, den, digits, below) == num \div (den \div Pow10(digits))

toFixed(num, den, digits, below) ==
  LET unit == den \div Pow10(digits)
      lower == num \div unit
      twice == 2 * (num - lower * unit)
  IN IF twice > unit \/ (twice = unit /\ ~below) THEN lower + 1 ELSE lower

\* Whether the double (capital * riskPerTrade) / 100 lies below the exact
\* product when that product is a midpoint of two hundredths (IEEE-754
\* binary64, round to nearest even), for the midpoints among the numbers the
\* model enumerates: 100.5 * 1 / 100 is 1.00499999999999989...
riskCapitalBelow(input) ==
  <<input.capital, input.riskPerTrade>> \in {<<10050, 100>>}

stopLossPipsOf(profile) ==
  IF profile = "Scalping" THEN 8 ELSE IF profile = "Day Trade" THEN 20 ELSE 45

\* takeProfitMultiplier in tenths: 1.2, 2, 2.8
takeProfitMultiplierOf(profile) ==
  IF profile = "Scalping" THEN 12 ELSE IF profile = "Day Trade" THEN 20 ELSE 28

RECURSIVE join(_, _)
join(a, sep) ==
  IF Len(a) = 0 THEN <<>>
  ELSE IF Len(a) = 1 THEN <<a[1]>>
  ELSE <<a[1], sep>> \o join(Tail(a), sep)

\* The report, one field per line of the template; numbers printed with two
\* decimals are counts of hundredths.
buildStrategy(input) ==
  LET stopLossPips == stopLossPipsOf(input.profile)
      takeProfitMultiplier == takeProfitMultiplierOf(input.profile)
      \* riskCapital = capital * riskPerTrade / 100 = rcNum / 10^6
      rcNum == input.capital * input.riskPerTrade
      \* riskCapital / (stopLossPips * 1.5) = 2 * rcNum / (3 * stopLossPips * 10^6)
      lotSize == toFixed(2 * rcNum, 3 * stopLossPips * 1000000, 2, FALSE)
  IN [ title |-> <<"Estrategia", input.profile, input.session>>,
       indicators |-> <<"- Indicadores principais:">> \o join(input.indicators, ", "),
       session |-> <<"- Sessao:", Lookup(sessionCharacteristics, input.session)>>,
       risk |-> <<"- Risco por trade:", toFixed(input.riskPerTrade, 100, 2, FALSE), "% (",
                  toFixed(rcNum, 1000000, 2, riskCapitalBelow(input)), "USD)">>,
       stops |-> <<"- Stop loss medio:", stopLossPips, "pips | Take profit:",
                   toFixed(stopLossPips * takeProfitMultiplier, 10, 0, FALSE), "pips">>,
       lot |-> <<"- Lote sugerido:", lotSize, "mini lotes">>,
       note |-> <<"- Observacao:", Lookup(riskNotes, input.profile),
                  Lookup(automationTips, input.automationLevel)>> ]

----------------------------------------------------------------------------
\* Handlers.  op names the handler that ran last and steps counts the
\* handlers run.  memo is a history variable: one record per run of
\* handleGenerate, holding what it started from and what it showed.

Init ==
  /\ form = NULL
  /\ error = NULL
  /\ result = NULL
  /\ op = "init"
  /\ steps = 0
  /\ memo = {}

\* setForm(prev => ({ ...(prev ?? defaultState), ...partial })) for a partial
\* with the single key field.
handleChange(field, value) ==
  /\ steps < MaxSteps
  /\ form' = Some([currentState EXCEPT ![field] = value])
  /\ op' = "handleChange"
  /\ steps' = steps + 1
  /\ UNCHANGED <<error, result, memo>>

ProfileSelect == \E v \in ProfileOptions : handleChange("profile", v)

CapitalInput ==
  \E text \in CapitalTexts :
    handleChange("capital", parseNumber(text, defaultState.capital))

RiskPerTradeInput ==
  \E text \in RiskTexts :
    handleChange("riskPerTrade", parseNumber(text, defaultState.riskPerTrade))

SessionSelect == \E v \in SessionOptions : handleChange("session", v)

includes(a, x) == \E i \in 1..Len(a) : a[i] = x

\* Mutation: the checkbox appends whether or not the option is checked.
toggledAlwaysAppends(indicators, option) == Append(indicators, option)

\* checked ? indicators.filter(item => item !== option) : [...indicators, option]
toggled(indicators, option) ==
  IF includes(indicators, option)
    THEN SelectSeq(indicators, LAMBDA item : item # option)
    ELSE Append(indicators, option)

IndicatorCheckbox ==
  \E i \in 1..Len(indicatorOptions) :
    handleChange("indicators", toggled(currentState.indicators, indicatorOptions[i]))

AutomationButton == \E level \in AutomationButtons : handleChange("automationLevel", level)

\* The record of one run of handleGenerate: the handler that ran before it,
\* the error and result it started from, its input, the error it set, and
\* the report it set when it set no error.
Run(input, err, res) ==
  [ after |-> op, before |-> [error |-> error, result |-> result],
    input |-> input, error |-> err,
    report |-> IF err = NULL THEN res ELSE NULL ]

\* Mutation: the success path without setError(null).
handleGenerateKeepsError ==
  /\ steps < MaxSteps
  /\ LET input == currentState
         issues == strategySchemaIssues(input)
     IN /\ IF issues = <<>>
             THEN /\ UNCHANGED error
                  /\ result' = Some(buildStrategy(input))
             ELSE /\ error' = Some(issues[1])
                  /\ UNCHANGED result
        /\ memo' = memo \cup {Run(input, error', result')}
  /\ op' = "handleGenerate"
  /\ steps' = steps + 1
  /\ UNCHANGED form

\* Mutation: the catch block also calls setResult(null).
handleGenerateClearsResult ==
  /\ steps < MaxSteps
  /\ LET input == currentState
         issues == strategySchemaIssues(input)
     IN /\ IF issues = <<>>
             THEN /\ error' = NULL
                  /\ result' = Some(buildStrategy(input))
             ELSE /\ error' = Some(issues[1])
                  /\ result' = NULL
        /\ memo' = memo \cup {Run(input, error', result')}
  /\ op' = "handleGenerate"
  /\ steps' = steps + 1
  /\ UNCHANGED form

\* strategySchema.parse throws a ZodError exactly when it found an issue;
\* buildStrategy does not throw on a parsed input, so the catch block's other
\* branch is never taken.
handleGenerate ==
  /\ steps < MaxSteps
  /\ LET input == currentState
         issues == strategySchemaIssues(input)
     IN /\ IF issues = <<>>
             THEN /\ error' = NULL
                  /\ result' = Some(buildStrategy(input))
             ELSE /\ error' = Some(issues[1])
                  /\ UNCHANGED result
        /\ memo' = memo \cup {Run(input, error', result')}
  /\ op' = "handleGenerate"
  /\ steps' = steps + 1
  /\ UNCHANGED form

\* Mutation: Reset without setError(null).
ResetButtonKeepsError ==
  /\ steps < MaxSteps
  /\ form' = Some(defaultState)
  /\ result' = NULL
  /\ op' = "reset"
  /\ steps' = steps + 1
  /\ UNCHANGED <<error, memo>>

ResetButton ==
  /\ steps < MaxSteps
  /\ form' = Some(defaultState)
  /\ result' = NULL
  /\ error' = NULL
  /\ op' = "reset"
  /\ steps' = steps + 1
  /\ UNCHANGED memo

Next ==
  \/ ProfileSelect
  \/ CapitalInput
  \/ RiskPerTradeInput
  \/ SessionSelect
  \/ IndicatorCheckbox
  \/ AutomationButton
  \/ handleGenerate
  \/ ResetButton

Spec == Init /\ [][Next]_vars

----------------------------------------------------------------------------
\* strategySchema.parse and buildStrategy as functions of an arbitrary
\* StrategyInput-shaped value: the page starts with any such value as its
\* form and only handleGenerate runs.

\* Longest indicator list among the raw inputs.
MaxIndicators == 2

ForeignValues == <<"Position", "">>
Foreign == {ForeignValues[i] : i \in 1..(IF MaxForeign < 2 THEN MaxForeign ELSE 2)}

CapitalValues == {0, 9999, 10000, 10050, 100000, 200000}
RiskValues == {9, 10, 100, 200, 500, 510}

IndicatorLists ==
  UNION {[1..n -> {indicatorOptions[1], indicatorOptions[5]}] : n \in 0..MaxIndicators}

ParseInputs ==
  [ profile : ProfileEnum \cup Foreign,
    capital : CapitalValues,
    riskPerTrade : RiskValues,
    indicators : IndicatorLists,
    session : SessionEnum \cup Foreign,
    automationLevel : AutomationEnum \cup Foreign ]

InitParse ==
  /\ form \in {Some(input) : input \in ParseInputs}
  /\ error = NULL
  /\ result = NULL
  /\ op = "init"
  /\ steps = 0
  /\ memo = {}

NextParse == handleGenerate

SpecParse == InitParse /\ [][NextParse]_vars

----------------------------------------------------------------------------
\* Properties.  The six field constraints and their priority order are
\* written out here independently of the schema above.

Generated == op = "handleGenerate"

\* The step just taken was a run of handleGenerate / of the Reset button.
GenerateStep == op' = "handleGenerate" /\ steps' = steps + 1
ResetStep == op' = "reset" /\ steps' = steps + 1

RuleViolated(k, input) ==
  CASE k = 1 -> input.profile \notin {"Scalping", "Day Trade", "Swing"}
    [] k = 2 -> input.capital < 10000
    [] k = 3 -> input.riskPerTrade < 10 \/ input.riskPerTrade > 500
    [] k = 4 -> Len(input.indicators) = 0
    [] k = 5 -> input.session \notin {"Londres", "Nova York", "Toquio"}
    [] k = 6 -> input.automationLevel \notin {"Manual", "Semi-Autonomo", "Total"}

ViolatedRules(input) == {k \in 1..6 : RuleViolated(k, input)}

AllSixHold(input) == ViolatedRules(input) = {}

RuleMessages(k, input) ==
  LET issues == CASE k = 1 -> profileIssues(input)
                  [] k = 2 -> capitalIssues(input)
                  [] k = 3 -> riskPerTradeIssues(input)
                  [] k = 4 -> indicatorsIssues(input)
                  [] k = 5 -> sessionIssues(input)
                  [] k = 6 -> automationLevelIssues(input)
  IN {issues[i] : i \in 1..Len(issues)}

Earliest(ks) == CHOOSE k \in ks : \A j \in ks : k <= j

CapitalMessage == <<"Number must be greater than or equal to", 10000>>
RiskMinMessage == <<"Number must be greater than or equal to", 10>>
RiskMaxMessage == <<"Number must be less than or equal to", 500>>
IndicatorsMessage == <<"Array must contain at least", 1, "element(s)">>

Abs(x) == IF x < 0 THEN -x ELSE x

\* n is an integer nearest to num / den (either neighbour at a midpoint).
Nearest(n, num, den) == 2 * Abs(n * den - num) <= den

DefaultReport ==
  [ title |-> <<"Estrategia", "Day Trade", "Londres">>,
    indicators |-> <<"- Indicadores principais:", "Media Movel Exponencial (EMA)", ", ",
                     "Indice de Forca Relativa (RSI)">>,
    session |-> <<"- Sessao:", "Alta liquidez em pares EUR/GBP, volatilidade consistente.">>,
    risk |-> <<"- Risco por trade:", 100, "% (", 1000, "USD)">>,
    stops |-> <<"- Stop loss medio:", 20, "pips | Take profit:", 40, "pips">>,
    lot |-> <<"- Lote sugerido:", 33, "mini lotes">>,
    note |-> <<"- Observacao:", "Combine confirmacao de tendencia com filtro de volatilidade.",
               "Automatize entradas/saidas e mantenha supervisao humana para ajustes.">> ]

\* C1: after Generate on an input that violates more than one rule, the
\* error is a message of the earliest violated rule in the order profile,
\* capital, riskPerTrade, indicators, session, automationLevel, and is not a
\* message of any later violated rule.
C1_FirstFailureWins ==
  LET input == currentState
      ks == ViolatedRules(input)
  IN (Generated /\ Cardinality(ks) > 1) =>
       /\ error # NULL
       /\ error[1] \in RuleMessages(Earliest(ks), input)
       /\ \A j \in ks \ {Earliest(ks)} : error[1] \notin RuleMessages(j, input)

C1_Witness ==
  /\ Generated
  /\ ViolatedRules(currentState) = {2, 4, 6}
  /\ error = Some(CapitalMessage)

\* C2 as claimed: after Generate on any input with capital < 100 the error
\* is the capital message, whatever the other five fields hold.
C2_CapitalAlwaysReported ==
  (Generated /\ currentState.capital < 10000) => error = Some(CapitalMessage)

\* C2 as amended: after Generate on an input with capital < 100 whose profile
\* is one of the three enum values, the error is the capital message,
\* whatever the other four fields hold.
C2_CapitalReportedWhenProfileValid ==
  (/\ Generated
   /\ currentState.capital < 10000
   /\ currentState.profile \in {"Scalping", "Day Trade", "Swing"})
     => (error = Some(CapitalMessage) /\ result = NULL)

C2_Witness ==
  /\ Generated
  /\ currentState.capital = 9999
  /\ ViolatedRules(currentState) = {2, 3, 4, 5, 6}
  /\ error = Some(CapitalMessage)

\* C3: Generate succeeds (no error, a report) exactly when all six
\* constraints hold, and the title line of every report carries the input's
\* profile and session.
C3_AcceptedIffAllSix ==
  LET input == currentState
  IN Generated =>
       /\ (error = NULL) <=> AllSixHold(input)
       /\ (result # NULL) <=> AllSixHold(input)
       /\ result # NULL => result[1].title = <<"Estrategia", input.profile, input.session>>

C3_Witness ==
  /\ Generated
  /\ error = NULL
  /\ result # NULL
  /\ result[1].title = <<"Estrategia", "Swing", "Toquio">>

\* C4: the numbers of every report are the reference values: the risk
\* amount is capital x riskPerTrade / 100 to two decimals, the stop loss is
\* 8/20/45 and the take profit 10/40/126 by profile, and the lot size is the
\* risk amount / (stop loss x 1.5) to two decimals; (Day Trade, 1000, 1)
\* gives 10.00, 20, 40, 0.33 and (Scalping, 2000, 2) gives 40.00, 8, 10, 3.33.
C4_DerivedNumbers ==
  LET input == currentState
      r == result[1]
      sl == CASE input.profile = "Scalping" -> 8
              [] input.profile = "Day Trade" -> 20
              [] input.profile = "Swing" -> 45
      tp == CASE input.profile = "Scalping" -> 10
              [] input.profile = "Day Trade" -> 40
              [] input.profile = "Swing" -> 126
      numbers == <<r.risk[4], r.stops[2], r.stops[4], r.lot[2]>>
  IN (Generated /\ error = NULL) =>
       /\ Nearest(r.risk[4], input.capital * input.riskPerTrade, 10000)
       /\ r.stops[2] = sl
       /\ r.stops[4] = tp
       /\ Nearest(r.lot[2], 2 * input.capital * input.riskPerTrade, 3 * sl * 10000)
       /\ (input.profile = "Day Trade" /\ input.capital = 100000 /\ input.riskPerTrade = 100)
            => numbers = <<1000, 20, 40, 33>>
       /\ (input.profile = "Scalping" /\ input.capital = 200000 /\ input.riskPerTrade = 200)
            => numbers = <<4000, 8, 10, 333>>

C4_Witness ==
  /\ Generated
  /\ error = NULL
  /\ currentState.profile = "Scalping"
  /\ currentState.capital = 200000
  /\ currentState.riskPerTrade = 200
  /\ result[1].stops = <<"- Stop loss medio:", 8, "pips | Take profit:", 10, "pips">>
  /\ result[1].lot[2] = 333

\* C5: with the other five fields valid, Generate accepts riskPerTrade
\* exactly when 0.1 <= riskPerTrade <= 5: 0.1 and 5 are accepted, 0.09 and
\* 5.1 are rejected.
C5_RiskBoundsInclusive ==
  LET input == currentState
      r == input.riskPerTrade
  IN (Generated /\ ViolatedRules(input) \subseteq {3}) =>
       /\ (error = NULL /\ result # NULL) <=> (10 <= r /\ r <= 500)
       /\ r \in {10, 500} => error = NULL
       /\ r = 9 => error = Some(RiskMinMessage)
       /\ r = 510 => error = Some(RiskMaxMessage)

C5_Witness ==
  /\ Generated
  /\ currentState.riskPerTrade = 500
  /\ AllSixHold(currentState)
  /\ error = NULL
  /\ result # NULL

\* C6: a run of Generate on a form whose indicators are empty sets an error
\* and leaves the report as it was; when the other five fields are valid the
\* error is the indicators message.
C6_EmptyIndicatorsRejected ==
  [][(GenerateStep /\ currentState.indicators = <<>>) =>
       /\ error' # NULL
       /\ result' = result
       /\ ViolatedRules(currentState) = {4} => error' = Some(IndicatorsMessage)]_vars

C6_Witness ==
  /\ Generated
  /\ form = Some([defaultState EXCEPT !.indicators = <<>>])
  /\ error = Some(IndicatorsMessage)
  /\ result = Some(DefaultReport)

\* C7: any two runs of Generate on the same form snapshot showed the same
\* outcome (the same error, or the same report), whatever handler ran before
\* them and whatever error and result they started from.
C7_SameInputSameOutcome ==
  \A a, b \in memo :
    a.input = b.input => (a.error = b.error /\ a.report = b.report)

C7_Witness ==
  \E a, b \in memo :
    /\ a.input = b.input
    /\ a.before.error # b.before.error
    /\ a.before.result # b.before.result
    /\ a.error = NULL
    /\ a.report = b.report

\* C8: a run of Generate on an input that fails validation sets error to the
\* first message and leaves result as it was; a run on a valid input sets
\* error to null and result to the report of the current form snapshot.
C8_FailureKeepsResult ==
  [][GenerateStep =>
       IF AllSixHold(currentState)
         THEN error' = NULL /\ result' = Some(buildStrategy(currentState))
         ELSE /\ error' # NULL
              /\ error'[1] \in RuleMessages(Earliest(ViolatedRules(currentState)), currentState)
              /\ result' = result]_vars

C8_Witness ==
  /\ Generated
  /\ error # NULL
  /\ result # NULL
  /\ ~AllSixHold(currentState)

\* C9: in every reachable form state indicators is duplicate-free and drawn
\* from the five-entry catalog and the three enum fields hold enum values,
\* so only the capital, riskPerTrade and indicators rules can fail.
C9_FormWellFormed ==
  LET input == currentState
      ind == input.indicators
  IN /\ \A i, j \in 1..Len(ind) : ind[i] = ind[j] => i = j
     /\ \A i \in 1..Len(ind) : \E k \in 1..5 : ind[i] = indicatorOptions[k]
     /\ Len(indicatorOptions) = 5
     /\ input.profile \in {"Scalping", "Day Trade", "Swing"}
     /\ input.session \in {"Londres", "Nova York", "Toquio"}
     /\ input.automationLevel \in {"Manual", "Semi-Autonomo", "Total"}
     /\ ViolatedRules(input) \subseteq {2, 3, 4}
     /\ (Generated /\ error # NULL) =>
          error[1] \in {CapitalMessage, RiskMinMessage, RiskMaxMessage, IndicatorsMessage}

C9_Witness ==
  /\ form # NULL
  /\ form[1].indicators = <<indicatorOptions[2], indicatorOptions[5], indicatorOptions[1]>>
  /\ form[1].profile = "Swing"

\* C10: a run of Generate before any edit (form = null) or right after Reset
\* sets error to null and result to the report of the default input, and
\* Reset sets form to the default input and result and error to null.
C10_DefaultGenerates ==
  [][/\ (GenerateStep /\ (form = NULL \/ op = "reset")) =>
          (error' = NULL /\ result' = Some(DefaultReport))
     /\ ResetStep =>
          /\ form' = Some([ profile |-> "Day Trade", capital |-> 100000,
                            riskPerTrade |-> 100,
                            indicators |-> <<"Media Movel Exponencial (EMA)",
                                             "Indice de Forca Relativa (RSI)">>,
                            session |-> "Londres",
                            automationLevel |-> "Semi-Autonomo" ])
          /\ result' = NULL
          /\ error' = NULL]_vars

C10_Witness ==
  /\ Generated
  /\ result = Some(DefaultReport)
  /\ \E m \in memo :
       /\ m.after = "reset"
       /\ m.error = NULL
       /\ m.report = Some(DefaultReport)
  /\ \E m \in memo : m.error # NULL /\ m.before.result # NULL

============================================================================
